---- MODULE Spec2Model ----
(***************************************************************************)
(* State-machine model of cloudformation-ecs-ssh-forwards.                 *)
(*                                                                         *)
(* One run of module.exports (src/unnamed/part_000, src/index.js): the     *)
(* promise graph that resolves the service and the cluster, lists and      *)
(* describes the tasks, aggregates the network bindings per container      *)
(* instance, resolves the instances' addresses and prints the ssh lines.   *)
(*                                                                         *)
(* Every action is one turn of the event loop: the delivery of one         *)
(* control-plane response to its callback, followed by every promise       *)
(* reaction (microtask) it triggers, up to and including the next query    *)
(* the code issues.                                                        *)
(*                                                                         *)
(* JavaScript values: an absent (undefined) value is the empty tuple <<>>  *)
(* and a present value v is the one-element tuple <<v>>; an ordered Map is *)
(* a sequence of [key, value] records in insertion order.                  *)
(*                                                                         *)
(* lastResponse records the answer the latest callback received.  world    *)
(* holds the answers the control plane has ready before the run starts,    *)
(* in the specification that fixes them (SpecOrder); elsewhere the answers *)
(* are chosen when they arrive and world is empty.                         *)
(***************************************************************************)
EXTENDS Integers, Sequences, FiniteSets, TLC

VARIABLES args, calls, service, cluster, taskList, result,
          containerInstances, output, lastResponse, world

vars == <<args, calls, service, cluster, taskList, result,
          containerInstances, output, lastResponse, world>>

(***************************************************************************)
(* Bounds of the model.                                                    *)
(***************************************************************************)
MaxResources == 2   \* resources in one DescribeStackResources answer
MaxParams == 2      \* parameters of the service stack
PipeTasks == 2      \* tasks listed in a run of the whole pipeline
MaxTasks == 2       \* tasks described in an aggregation run
MaxBindings == 2    \* network bindings in one DescribeTasks answer

(***************************************************************************)
(* Program constants.                                                      *)
(***************************************************************************)
DefaultPort == 49152

ServiceType == "AWS::ECS::Service"
ClusterLogicalId == "cluster"
ClusterParameterKey == "ClusterStackName"

(***************************************************************************)
(* JavaScript helpers.                                                     *)
(***************************************************************************)
Undefined == <<>>
Some(v) == <<v>>

\* String(x) as used by "+" on a possibly undefined value.
StringOf(x) == IF x = Undefined THEN "undefined" ELSE x[1]

Min(S) == CHOOSE x \in S : \A y \in S : x <= y

Range(s) == {s[i] : i \in 1..Len(s)}

\* Promise states; a settled promise holds the value or the error it settled with.
Pending == [state |-> "pending", value |-> Undefined]
Fulfilled(v) == [state |-> "fulfilled", value |-> v]
Rejected(e) == [state |-> "rejected", value |-> e]
Settle(c) == IF c.ok THEN Fulfilled(c.value) ELSE Rejected(c.value)

\* Mutant: a later rejection replaces the outcome of a settled promise.
RejectAlways(p, e) == Rejected(e)

\* A settled promise never changes: rejecting it again is a no-op.
RejectIfPending(p, e) == IF p.state = "pending" THEN Rejected(e) ELSE p

\* Completion of a then-handler: a returned value or a thrown error.
Return(v) == [ok |-> TRUE, value |-> v]
Throw(name, message) == [ok |-> FALSE, value |-> [name |-> name, message |-> message]]

\* The error object a control-plane query hands to its callback.
QueryError(by) == [name |-> "ControlPlaneError", message |-> by]

(***************************************************************************)
(* Ordered Map (insertion order; set() on an existing key keeps its place).*)
(***************************************************************************)
MapKeys(m) == [i \in 1..Len(m) |-> m[i].key]
MapValues(m) == [i \in 1..Len(m) |-> m[i].value]
MapHas(m, k) == \E i \in 1..Len(m) : m[i].key = k
MapIndex(m, k) == CHOOSE i \in 1..Len(m) : m[i].key = k
MapGet(m, k) == m[MapIndex(m, k)].value
MapSet(m, k, v) ==
    IF MapHas(m, k)
    THEN [m EXCEPT ![MapIndex(m, k)] = [key |-> k, value |-> v]]
    ELSE Append(m, [key |-> k, value |-> v])

(***************************************************************************)
(* The log of control-plane queries: who issued which operation with which *)
(* parameters, and whether its callback has run.                           *)
(***************************************************************************)
Call(by, op, params) == [by |-> by, op |-> op, params |-> params, status |-> "pending"]
Issued(by) == \E i \in 1..Len(calls) : calls[i].by = by
CallOf(by) == calls[CHOOSE i \in 1..Len(calls) : calls[i].by = by]
InFlight(by) == Issued(by) /\ CallOf(by).status = "pending"
Returned(by) == Issued(by) /\ CallOf(by).status = "ok"
\* Mutant: a query that failed stays in flight, to be answered again.
AnswerRetry(log, by, err) ==
    [i \in 1..Len(log) |->
        IF log[i].by = by /\ ~err
        THEN [log[i] EXCEPT !.status = "ok"]
        ELSE log[i]]

Answer(log, by, err) ==
    [i \in 1..Len(log) |->
        IF log[i].by = by
        THEN [log[i] EXCEPT !.status = IF err THEN "error" ELSE "ok"]
        ELSE log[i]]

(***************************************************************************)
(* Identity Resolver and Cluster Resolver: the then-handlers.              *)
(***************************************************************************)
\* Parameters of getServiceName's describeStackResources query.
ServiceQuery(serviceStackName, serviceName) ==
    IF serviceName # ""
    THEN [StackName |-> serviceStackName, LogicalResourceId |-> serviceName]
    ELSE [StackName |-> serviceStackName]

\* Mutant: without a logical name, the first resource whatever its type.
getServiceNameFirst(serviceName, resources) ==
    IF Len(resources.StackResources) = 0
    THEN Throw("Error", "Service not found")
    ELSE Return(resources.StackResources[1].PhysicalResourceId)

getServiceName(serviceName, resources) ==
    IF serviceName # "" /\ Len(resources.StackResources) = 0
    THEN Throw("Error", "Service not found")
    ELSE IF serviceName # ""
    THEN Return(resources.StackResources[1].PhysicalResourceId)
    ELSE LET hits == {i \in 1..Len(resources.StackResources) :
                        resources.StackResources[i].ResourceType = ServiceType}
         IN IF hits = {}
            THEN Throw("Error", "Service not found")
            ELSE Return(resources.StackResources[Min(hits)].PhysicalResourceId)

\* Mutant: the value of the first parameter, whatever its key.
getClusterStackNameAnyKey(data) ==
    IF Len(data.Stacks) = 0
    THEN Throw("Error", "Stack not found")
    ELSE IF Len(data.Stacks[1].Parameters) > 0
            /\ data.Stacks[1].Parameters[1].ParameterValue # ""
    THEN Return(data.Stacks[1].Parameters[1].ParameterValue)
    ELSE Throw("Error", "Cluster stack parameter not found")

getClusterStackName(data) ==
    IF Len(data.Stacks) = 0
    THEN Throw("Error", "Stack not found")
    ELSE LET params == data.Stacks[1].Parameters
             hits == {i \in 1..Len(params) : params[i].ParameterKey = ClusterParameterKey}
             clusterStackName == IF hits = {} THEN "" ELSE params[Min(hits)].ParameterValue
         IN IF clusterStackName # ""
            THEN Return(clusterStackName)
            ELSE Throw("Error", "Cluster stack parameter not found")

ClusterQuery(clusterStackName) ==
    [StackName |-> clusterStackName, LogicalResourceId |-> ClusterLogicalId]

\* Mutant: an empty answer yields an empty cluster name instead of an error.
getClusterNameLenient(resources) ==
    IF Len(resources.StackResources) = 0
    THEN Return("")
    ELSE Return(resources.StackResources[1].PhysicalResourceId)

getClusterName(resources) ==
    IF Len(resources.StackResources) = 0
    THEN Throw("Error", "Cluster stack not found")
    ELSE Return(resources.StackResources[1].PhysicalResourceId)

\* Mutant: an empty task list treated as an error.
taskArnsOrThrow(data) ==
    IF Len(data.taskArns) = 0 THEN Throw("Error", "No tasks") ELSE Return(data.taskArns)

\* Task Enumerator: the then-handler of listTasks.
taskArnsOf(data) == Return(data.taskArns)

(***************************************************************************)
(* Binding Aggregator: the triple loop over tasks, containers, bindings.   *)
(***************************************************************************)
\* Mutant: the filter is ignored.
RetainedAlways(containerPorts, containerPort) == TRUE

\* containerPorts && containerPorts.has(p) || !containerPorts
Retained(containerPorts, containerPort) ==
    \/ containerPorts # Undefined /\ containerPort \in containerPorts[1]
    \/ containerPorts = Undefined

\* { ports: new Map(), byHostPort: new Map() }
NewRequest ==
    [ports |-> <<>>, byHostPort |-> <<>>, instanceId |-> Undefined, ipAddress |-> Undefined]

\* Mutant: the first binding of a containerPort wins.
AddBindingFirstWins(ci, arn, containerName, binding, containerPorts) ==
    LET request == IF MapHas(ci, arn) THEN MapGet(ci, arn) ELSE NewRequest
        updated ==
            [request EXCEPT
                !.ports = IF MapHas(@, binding.containerPort) THEN @
                          ELSE MapSet(@, binding.containerPort, binding.hostPort),
                !.byHostPort = MapSet(@, binding.hostPort,
                    [containerName |-> containerName,
                     containerPort |-> binding.containerPort])]
    IN MapSet(ci, arn, updated)

\* Mutant: the host group is entered in the map before the filter is applied.
AddBindingEager(ci, arn, containerName, binding, containerPorts) ==
    LET request == IF MapHas(ci, arn) THEN MapGet(ci, arn) ELSE NewRequest
        updated ==
            [request EXCEPT
                !.ports = MapSet(@, binding.containerPort, binding.hostPort),
                !.byHostPort = MapSet(@, binding.hostPort,
                    [containerName |-> containerName,
                     containerPort |-> binding.containerPort])]
    IN IF Retained(containerPorts, binding.containerPort)
       THEN MapSet(ci, arn, updated)
       ELSE MapSet(ci, arn, request)

\* Mutant: ports is a list of pairs, a repeated containerPort adds an entry.
AddBindingKeepBoth(ci, arn, containerName, binding, containerPorts) ==
    IF Retained(containerPorts, binding.containerPort)
    THEN LET request == IF MapHas(ci, arn) THEN MapGet(ci, arn) ELSE NewRequest
             updated ==
                [request EXCEPT
                    !.ports = Append(@, [key |-> binding.containerPort,
                                         value |-> binding.hostPort]),
                    !.byHostPort = MapSet(@, binding.hostPort,
                        [containerName |-> containerName,
                         containerPort |-> binding.containerPort])]
         IN MapSet(ci, arn, updated)
    ELSE ci

\* The body of the innermost loop for one binding.
AddBinding(ci, arn, containerName, binding, containerPorts) ==
    IF Retained(containerPorts, binding.containerPort)
    THEN LET request == IF MapHas(ci, arn) THEN MapGet(ci, arn) ELSE NewRequest
             updated ==
                [request EXCEPT
                    !.ports = MapSet(@, binding.containerPort, binding.hostPort),
                    !.byHostPort = MapSet(@, binding.hostPort,
                        [containerName |-> containerName,
                         containerPort |-> binding.containerPort])]
         IN MapSet(ci, arn, updated)
    ELSE ci

RECURSIVE AddBindings(_, _, _, _, _, _)
AddBindings(ci, arn, containerName, bindings, k, containerPorts) ==
    IF k > Len(bindings)
    THEN ci
    ELSE AddBindings(AddBinding(ci, arn, containerName, bindings[k], containerPorts),
                     arn, containerName, bindings, k + 1, containerPorts)

\* Mutant: every container is given the name of the first override.
RECURSIVE AddContainersFirstName(_, _, _, _)
AddContainersFirstName(c, task, j, containerPorts) ==
    IF ~c.ok \/ j > Len(task.containers)
    THEN c
    ELSE IF j > Len(task.overrides.containerOverrides)
    THEN Throw("TypeError", "Cannot read property 'name' of undefined")
    ELSE LET container == task.containers[j]
             containerName == task.overrides.containerOverrides[1].name
         IN AddContainersFirstName(
                IF container.networkBindings # Undefined
                THEN Return(AddBindings(c.value, task.containerInstanceArn, containerName,
                                        container.networkBindings[1], 1, containerPorts))
                ELSE c,
                task, j + 1, containerPorts)

\* The loops return the map, or the TypeError thrown by reading .name of a
\* containerOverrides entry that does not exist.
RECURSIVE AddContainers(_, _, _, _)
AddContainers(c, task, j, containerPorts) ==
    IF ~c.ok \/ j > Len(task.containers)
    THEN c
    ELSE IF j > Len(task.overrides.containerOverrides)
    THEN Throw("TypeError", "Cannot read property 'name' of undefined")
    ELSE LET container == task.containers[j]
             containerName == task.overrides.containerOverrides[j].name
         IN AddContainers(
                IF container.networkBindings # Undefined   \* Array.isArray
                THEN Return(AddBindings(c.value, task.containerInstanceArn, containerName,
                                        container.networkBindings[1], 1, containerPorts))
                ELSE c,
                task, j + 1, containerPorts)

RECURSIVE AddTasks(_, _, _, _)
AddTasks(c, tasks, i, containerPorts) ==
    IF ~c.ok \/ i > Len(tasks)
    THEN c
    ELSE AddTasks(AddContainers(c, tasks[i], 1, containerPorts), tasks, i + 1, containerPorts)

Aggregate(tasks, containerPorts) == AddTasks(Return(<<>>), tasks, 1, containerPorts)

(***************************************************************************)
(* Host Resolver: instance ids of the container instances, then addresses. *)
(***************************************************************************)
\* containerInstances.get(arn).instanceId = ec2InstanceId, for each answer;
\* a TypeError when the answer names a container instance the map lacks.
RECURSIVE SetInstanceIds(_, _, _)
SetInstanceIds(c, described, i) ==
    IF ~c.ok \/ i > Len(described)
    THEN c
    ELSE LET containerInstance == described[i]
             arn == containerInstance.containerInstanceArn
         IN SetInstanceIds(
                IF MapHas(c.value, arn)
                THEN Return(MapSet(c.value, arn,
                        [MapGet(c.value, arn) EXCEPT
                            !.instanceId = Some(containerInstance.ec2InstanceId)]))
                ELSE Throw("TypeError", "Cannot set property 'instanceId' of undefined"),
                described, i + 1)

\* Array.from(containerInstances.values()).map(e => e.instanceId)
InstanceIds(ci) == [i \in 1..Len(ci) |-> ci[i].value.instanceId]

\* Mutant: a missing public IPv4 address is an error too.
AddInstanceIpStrict(instanceIps, instance, ipv6) ==
    IF ipv6
    THEN IF Len(instance.NetworkInterfaces) = 0
         THEN Throw("TypeError", "Cannot read property 'Ipv6Addresses' of undefined")
         ELSE LET addrs == instance.NetworkInterfaces[1].Ipv6Addresses
              IN IF addrs # Undefined /\ Len(addrs[1]) > 0
                 THEN Return(MapSet(instanceIps, instance.InstanceId,
                                    Some(addrs[1][1].Ipv6Address)))
                 ELSE Throw("Error", "No IPv6 address")
    ELSE IF instance.PublicIpAddress = Undefined
    THEN Throw("Error", "No IPv4 address")
    ELSE Return(MapSet(instanceIps, instance.InstanceId, instance.PublicIpAddress))

\* The body of the inner loop over the instances of a reservation.
AddInstanceIp(instanceIps, instance, ipv6) ==
    IF ipv6
    THEN IF Len(instance.NetworkInterfaces) = 0
         THEN Throw("TypeError", "Cannot read property 'Ipv6Addresses' of undefined")
         ELSE LET addrs == instance.NetworkInterfaces[1].Ipv6Addresses
              IN IF addrs # Undefined /\ Len(addrs[1]) > 0
                 THEN Return(MapSet(instanceIps, instance.InstanceId,
                                    Some(addrs[1][1].Ipv6Address)))
                 ELSE Throw("Error", "No IPv6 address")
    ELSE Return(MapSet(instanceIps, instance.InstanceId, instance.PublicIpAddress))

RECURSIVE AddInstances(_, _, _, _)
AddInstances(c, instances, j, ipv6) ==
    IF ~c.ok \/ j > Len(instances)
    THEN c
    ELSE AddInstances(AddInstanceIp(c.value, instances[j], ipv6), instances, j + 1, ipv6)

RECURSIVE AddReservations(_, _, _, _)
AddReservations(c, reservations, i, ipv6) ==
    IF ~c.ok \/ i > Len(reservations)
    THEN c
    ELSE AddReservations(AddInstances(c, reservations[i].Instances, 1, ipv6),
                         reservations, i + 1, ipv6)

InstanceIpsOf(data, ipv6) == AddReservations(Return(<<>>), data.Reservations, 1, ipv6)

\* Mutant: the first address found, whatever the group's instance.
IpOfAny(instanceIps, instanceId) ==
    IF instanceIps # <<>> THEN instanceIps[1].value ELSE Undefined

\* instanceIps.get(v.instanceId)
IpOf(instanceIps, instanceId) ==
    IF instanceId # Undefined /\ MapHas(instanceIps, instanceId[1])
    THEN MapGet(instanceIps, instanceId[1])
    ELSE Undefined

(***************************************************************************)
(* Command Emitter.                                                        *)
(***************************************************************************)
\* var port = startingPort || 49152
StartPort(startingPort) ==
    IF startingPort = Undefined \/ startingPort[1] = 0 THEN DefaultPort ELSE startingPort[1]

\* " -L" + port + ":localhost:" + v, port++, for each entry of v.ports
Forwards(ports, port) ==
    [e \in 1..Len(ports) |-> [localPort |-> port + (e - 1), hostPort |-> ports[e].value]]

\* "ssh" + forwards + " ec2-user@" + v.ipAddress
SshLine(group, port, ipAddress) ==
    [kind |-> "ssh", forwards |-> Forwards(group.ports, port),
     user |-> "ec2-user", address |-> StringOf(ipAddress)]

\* k + "\t" + v.containerName + ":" + v.containerPort, for each entry of v.byHostPort
Legend(byHostPort) ==
    [e \in 1..Len(byHostPort) |->
        [kind |-> "legend", hostPort |-> byHostPort[e].key,
         containerName |-> byHostPort[e].value.containerName,
         containerPort |-> byHostPort[e].value.containerPort]]

\* Mutant: the counter starts over at every host group.
NextPortReset(port, ports) == port

\* port after the port++ of every entry of v.ports.
NextPort(port, ports) == port + Len(ports)

\* Mutant: a group's legend is printed ahead of its ssh line.
RECURSIVE EmitGroupsLegendFirst(_, _, _, _, _)
EmitGroupsLegendFirst(ci, g, port, lines, instanceIps) ==
    IF g > Len(ci)
    THEN [containerInstances |-> ci, output |-> lines]
    ELSE LET v == ci[g].value
             ipAddress == IpOf(instanceIps, v.instanceId)
         IN EmitGroupsLegendFirst([ci EXCEPT ![g].value.ipAddress = ipAddress],
                                  g + 1,
                                  port + Len(v.ports),
                                  (lines \o Legend(v.byHostPort)) \o <<SshLine(v, port, ipAddress)>>,
                                  instanceIps)

\* containerInstances.forEach: the groups with their ipAddress set, and the lines printed.
RECURSIVE EmitGroups(_, _, _, _, _)
EmitGroups(ci, g, port, lines, instanceIps) ==
    IF g > Len(ci)
    THEN [containerInstances |-> ci, output |-> lines]
    ELSE LET v == ci[g].value
             ipAddress == IpOf(instanceIps, v.instanceId)
         IN EmitGroups([ci EXCEPT ![g].value.ipAddress = ipAddress],
                       g + 1,
                       NextPort(port, v.ports),
                       (lines \o <<SshLine(v, port, ipAddress)>>) \o Legend(v.byHostPort),
                       instanceIps)

Emit(ci, instanceIps, startingPort) ==
    EmitGroups(ci, 1, StartPort(startingPort), <<>>, instanceIps)

\* Mutant: the groups are printed although resolving an address threw.
describeInstancesThenPrinting(ci, data, ipv6, startingPort) ==
    LET instanceIps == InstanceIpsOf(data, ipv6)
    IN [completion |-> IF instanceIps.ok THEN Return(Undefined) ELSE instanceIps,
        emitted |-> Emit(ci, IF instanceIps.ok THEN instanceIps.value ELSE <<>>, startingPort)]

\* The last then-handler: addresses first, output only when none threw.
describeInstancesThen(ci, data, ipv6, startingPort) ==
    LET instanceIps == InstanceIpsOf(data, ipv6)
    IN IF instanceIps.ok
       THEN [completion |-> Return(Undefined),
             emitted |-> Emit(ci, instanceIps.value, startingPort)]
       ELSE [completion |-> instanceIps,
             emitted |-> [containerInstances |-> ci, output |-> <<>>]]

(***************************************************************************)
(* The promise graph of module.exports.                                    *)
(***************************************************************************)
\* Mutants of the join: fulfilled as soon as the last, or any, input is.
AllFulfilledLast(promises) == promises[Len(promises)].state = "fulfilled"
AllFulfilledAny(promises) == \E i \in 1..Len(promises) : promises[i].state = "fulfilled"

\* Promise.all fulfils when every input promise is fulfilled.
AllFulfilled(promises) == \A i \in 1..Len(promises) : promises[i].state = "fulfilled"

\* The first query of the Cluster Resolver: getClusterName when the caller
\* gave a cluster stack name, getClusterStackName otherwise.
FirstClusterCall(a) ==
    IF a.clusterStackName # ""
    THEN Call("getClusterName", "describeStackResources", ClusterQuery(a.clusterStackName))
    ELSE Call("getClusterStackName", "describeStacks", [StackName |-> a.serviceStackName])

ServiceCall(a) ==
    Call("getServiceName", "describeStackResources",
         ServiceQuery(a.serviceStackName, a.serviceName))

ListTasksCall(svc, cl) ==
    Call("listTasks", "listTasks", [serviceName |-> svc.value, cluster |-> cl.value])

DescribeTasksCall(cl, tl) ==
    Call("describeTasks", "describeTasks", [cluster |-> cl.value, tasks |-> tl.value])

DescribeContainerInstancesCall(ci, cl) ==
    Call("describeContainerInstances", "describeContainerInstances",
         [containerInstances |-> MapKeys(ci), cluster |-> cl.value])

DescribeInstancesCall(ci) ==
    Call("describeInstances", "describeInstances", [InstanceIds |-> InstanceIds(ci)])

\* What a callback makes of its (err, data): reject(err) or the then-handler's completion.
Outcome(by, r, completion) ==
    IF r.err THEN [ok |-> FALSE, value |-> QueryError(by)] ELSE completion

\* Mutant: the join is only looked at when the service resolves.
AfterResolverServiceLast(log, svc, cl, c) ==
    IF AllFulfilled(<<svc, cl>>) /\ service.state = "pending"
    THEN [calls |-> Append(log, ListTasksCall(svc, cl)),
          taskList |-> taskList, result |-> result]
    ELSE IF ~c.ok
    THEN [calls |-> log,
          taskList |-> RejectIfPending(taskList, c.value),
          result |-> RejectIfPending(result, c.value)]
    ELSE [calls |-> log, taskList |-> taskList, result |-> result]

\* Promise.all([getServiceName(..), clusterName]).then(listTasks), after one of
\* the two resolvers settled with completion c: the join issues listTasks when
\* both are fulfilled, and a rejection is passed on to taskList and from there
\* to the promise module.exports returned.
AfterResolver(log, svc, cl, c) ==
    IF AllFulfilled(<<svc, cl>>)
    THEN [calls |-> Append(log, ListTasksCall(svc, cl)),
          taskList |-> taskList, result |-> result]
    ELSE IF ~c.ok
    THEN [calls |-> log,
          taskList |-> RejectIfPending(taskList, c.value),
          result |-> RejectIfPending(result, c.value)]
    ELSE [calls |-> log, taskList |-> taskList, result |-> result]

Received(by, r) == [by |-> by, err |-> r.err, data |-> r.data]

\* module.exports is called: both resolvers issue their first query.
Run ==
    /\ calls = <<>>
    /\ calls' = <<FirstClusterCall(args), ServiceCall(args)>>
    /\ UNCHANGED <<world, args, service, cluster, taskList, result,
                   containerInstances, output, lastResponse>>

\* The answer to getServiceName's describeStackResources.
OnServiceResources(r) ==
    /\ InFlight("getServiceName")
    /\ LET c == Outcome("getServiceName", r, getServiceName(args.serviceName, r.data))
           next == AfterResolver(Answer(calls, "getServiceName", r.err),
                                 Settle(c), cluster, c)
       IN /\ service' = Settle(c)
          /\ calls' = next.calls
          /\ taskList' = next.taskList
          /\ result' = next.result
    /\ lastResponse' = Received("getServiceName", r)
    /\ UNCHANGED <<world, args, cluster, containerInstances, output>>

\* The answer to getClusterStackName's describeStacks; on success the chained
\* getClusterName issues its query.
OnDescribeStacks(r) ==
    /\ InFlight("getClusterStackName")
    /\ LET c == Outcome("getClusterStackName", r, getClusterStackName(r.data))
           log == Answer(calls, "getClusterStackName", r.err)
       IN IF c.ok
          THEN /\ calls' = Append(log, Call("getClusterName", "describeStackResources",
                                            ClusterQuery(c.value)))
               /\ UNCHANGED <<cluster, taskList, result>>
          ELSE /\ calls' = log
               /\ cluster' = Rejected(c.value)
               /\ taskList' = RejectIfPending(taskList, c.value)
               /\ result' = RejectIfPending(result, c.value)
    /\ lastResponse' = Received("getClusterStackName", r)
    /\ UNCHANGED <<world, args, service, containerInstances, output>>

\* The answer to getClusterName's describeStackResources.
OnClusterResources(r) ==
    /\ InFlight("getClusterName")
    /\ LET c == Outcome("getClusterName", r, getClusterName(r.data))
           next == AfterResolver(Answer(calls, "getClusterName", r.err),
                                 service, Settle(c), c)
       IN /\ cluster' = Settle(c)
          /\ calls' = next.calls
          /\ taskList' = next.taskList
          /\ result' = next.result
    /\ lastResponse' = Received("getClusterName", r)
    /\ UNCHANGED <<world, args, service, containerInstances, output>>

\* The answer to listTasks; Promise.all([clusterName, taskList]) then issues
\* describeTasks.
OnListTasks(r) ==
    /\ InFlight("listTasks")
    /\ LET c == Outcome("listTasks", r, taskArnsOf(r.data))
           log == Answer(calls, "listTasks", r.err)
       IN /\ taskList' = Settle(c)
          /\ IF AllFulfilled(<<cluster, Settle(c)>>)
             THEN /\ calls' = Append(log, DescribeTasksCall(cluster, Settle(c)))
                  /\ UNCHANGED result
             ELSE /\ calls' = log
                  /\ result' = IF c.ok THEN result ELSE RejectIfPending(result, c.value)
    /\ lastResponse' = Received("listTasks", r)
    /\ UNCHANGED <<world, args, service, cluster, containerInstances, output>>

\* The answer to describeTasks: the aggregation, then describeContainerInstances.
OnDescribeTasks(r) ==
    /\ InFlight("describeTasks")
    /\ LET c == Outcome("describeTasks", r, Aggregate(r.data.tasks, args.containerPorts))
           log == Answer(calls, "describeTasks", r.err)
       IN IF c.ok
          THEN /\ containerInstances' = c.value
               /\ calls' = Append(log, DescribeContainerInstancesCall(c.value, cluster))
               /\ UNCHANGED result
          ELSE /\ calls' = log
               /\ result' = RejectIfPending(result, c.value)
               /\ UNCHANGED containerInstances
    /\ lastResponse' = Received("describeTasks", r)
    /\ UNCHANGED <<world, args, service, cluster, taskList, output>>

\* The answer to describeContainerInstances: instance ids, then describeInstances.
OnDescribeContainerInstances(r) ==
    /\ InFlight("describeContainerInstances")
    /\ LET c == Outcome("describeContainerInstances", r,
                        SetInstanceIds(Return(containerInstances),
                                       r.data.containerInstances, 1))
           log == Answer(calls, "describeContainerInstances", r.err)
       IN IF c.ok
          THEN /\ containerInstances' = c.value
               /\ calls' = Append(log, DescribeInstancesCall(c.value))
               /\ UNCHANGED result
          ELSE /\ calls' = log
               /\ result' = RejectIfPending(result, c.value)
               /\ UNCHANGED containerInstances
    /\ lastResponse' = Received("describeContainerInstances", r)
    /\ UNCHANGED <<world, args, service, cluster, taskList, output>>

\* The answer to describeInstances: addresses, then the printed lines.
OnDescribeInstances(r) ==
    /\ InFlight("describeInstances")
    /\ LET then == describeInstancesThen(containerInstances, r.data,
                                         args.ipv6, args.startingPort)
           c == Outcome("describeInstances", r, then.completion)
       IN /\ result' = Settle(c)
          /\ containerInstances' =
                IF r.err THEN containerInstances ELSE then.emitted.containerInstances
          /\ output' = IF r.err THEN output ELSE then.emitted.output
    /\ calls' = Answer(calls, "describeInstances", r.err)
    /\ lastResponse' = Received("describeInstances", r)
    /\ UNCHANGED <<world, args, service, cluster, taskList>>

(***************************************************************************)
(* The control plane: the answers a query can receive.                     *)
(***************************************************************************)
Failure == [err |-> TRUE, data |-> Undefined]
Success(data) == [err |-> FALSE, data |-> data]

SeqsUpTo(S, n) == UNION {[1..k -> S] : k \in 0..n}

\* The service stack "svc-A": its resources (logical ids are unique in a stack;
\* a query with a LogicalResourceId is filtered by the control plane).
ServiceStackName == "svc-A"
PhysicalIdOf(logicalId) == IF logicalId = "web" THEN "svc-web" ELSE "svc-db"
StackResource ==
    {[LogicalResourceId |-> l, PhysicalResourceId |-> PhysicalIdOf(l), ResourceType |-> t] :
        l \in {"web", "db"}, t \in {ServiceType, "AWS::ECS::TaskDefinition"}}
ServiceResourceAnswers(params) ==
    {Success([StackResources |-> s]) :
        s \in {s \in SeqsUpTo(StackResource, MaxResources) :
                /\ \A i, j \in 1..Len(s) :
                        i # j => s[i].LogicalResourceId # s[j].LogicalResourceId
                /\ "LogicalResourceId" \in DOMAIN params =>
                        \A i \in 1..Len(s) : s[i].LogicalResourceId = params.LogicalResourceId}}
    \cup {Failure}

\* The service stack's parameters.
StackParameter ==
    {[ParameterKey |-> ClusterParameterKey, ParameterValue |-> "cluster-A"],
     [ParameterKey |-> ClusterParameterKey, ParameterValue |-> ""],
     [ParameterKey |-> "Environment", ParameterValue |-> "prod"]}
DescribeStacksAnswers ==
    {Success([Stacks |-> <<[Parameters |-> s]>>]) :
        s \in {s \in SeqsUpTo(StackParameter, MaxParams) :
                \A i, j \in 1..Len(s) : i # j => s[i].ParameterKey # s[j].ParameterKey}}
    \cup {Success([Stacks |-> <<>>]), Failure}

\* A cluster stack has the logical resource "cluster", or the answer is empty.
ClusterIdOf(stackName) == IF stackName = "cluster-A" THEN "ecs-A" ELSE "ecs-X"
ClusterResourceAnswers(params) ==
    {Success([StackResources |-> <<[LogicalResourceId |-> params.LogicalResourceId,
                                    PhysicalResourceId |-> ClusterIdOf(params.StackName),
                                    ResourceType |-> "AWS::ECS::Cluster"]>>]),
     Success([StackResources |-> <<>>]),
     Failure}

\* The tasks of the service.
TaskArns == <<"task-1", "task-2", "task-3", "task-4">>
ListTasksAnswers(n) ==
    {Success([taskArns |-> SubSeq(TaskArns, 1, k)]) : k \in 0..n} \cup {Failure}

\* The service's task definition: its containers, by index; the container
\* instances of the cluster; the ports in use.
TaskDefinition == <<"web", "db">>
\* A deployment is under way: every other task runs the next revision of the
\* task definition, whose containers carry other names.
NextTaskDefinition == <<"app", "cache">>
RevisionOf(i) == IF i % 2 = 1 THEN TaskDefinition ELSE NextTaskDefinition
ContainerInstanceArns == {"ci-1", "ci-2"}
BindingValues ==
    {[containerPort |-> 80, hostPort |-> 32768],
     [containerPort |-> 80, hostPort |-> 32769],
     [containerPort |-> 443, hostPort |-> 32769]}
PipeBindingValues ==
    {[containerPort |-> 80, hostPort |-> 32768], [containerPort |-> 443, hostPort |-> 32769]}

\* A DescribeTasks answer is built from the bindings it reports, listed in
\* (task, container) order: rows[k] is a binding of container rows[k].container
\* of task rows[k].task.
BindingRows(n, values, m) ==
    {s \in SeqsUpTo([task : 1..n, container : 1..Len(TaskDefinition), binding : values], m) :
        \A k \in 1..(Len(s) - 1) :
            \/ s[k].task < s[k + 1].task
            \/ s[k].task = s[k + 1].task /\ s[k].container <= s[k + 1].container}

RowsOf(rows, i, j) ==
    LET Mine(r) == r.task = i /\ r.container = j
        mine == SelectSeq(rows, Mine)
    IN [k \in 1..Len(mine) |-> mine[k].binding]

\* blank is the networkBindings of a container that reports none: absent, or [].
TasksAnswer(n, hosts, blank, rows) ==
    Success([tasks |->
        [i \in 1..n |->
            [taskArn |-> TaskArns[i],
             containerInstanceArn |-> hosts[i],
             containers |->
                [j \in 1..Len(TaskDefinition) |->
                    [name |-> RevisionOf(i)[j],
                     networkBindings |->
                        IF RowsOf(rows, i, j) = <<>> THEN blank ELSE Some(RowsOf(rows, i, j))]],
             overrides |->
                [containerOverrides |->
                    [j \in 1..Len(TaskDefinition) |-> [name |-> RevisionOf(i)[j]]]]]]])

DescribeTasksAnswers(n, values, m, blanks) ==
    {TasksAnswer(n, hosts, blank, rows) :
        hosts \in [1..n -> ContainerInstanceArns],
        blank \in blanks,
        rows \in BindingRows(n, values, m)}
    \cup {Failure}

\* The EC2 instance of a container instance, and an instance's addresses.
InstanceIdOf(arn) == IF arn = "ci-1" THEN "i-0001" ELSE "i-0002"
PublicIpOf(id) == IF id = "i-0001" THEN "1.2.3.4" ELSE "5.6.7.8"
Ipv6Of(id) == IF id = "i-0001" THEN "2001:db8::1" ELSE "2001:db8::2"

\* DescribeContainerInstances answers for the container instances asked for:
\* all of them, or all but the last.
ContainerInstancesAnswer(arns) ==
    Success([containerInstances |->
        [i \in 1..Len(arns) |->
            [containerInstanceArn |-> arns[i], ec2InstanceId |-> InstanceIdOf(arns[i])]]])
PipeContainerInstancesAnswers(params) ==
    LET arns == params.containerInstances
    IN {ContainerInstancesAnswer(SubSeq(arns, 1, k)) : k \in {Len(arns), Len(arns) - 1} \cap Nat}
       \cup {Failure}

\* An instance with a public IPv4 address and an IPv6 address, and one with neither.
Healthy(id) ==
    [InstanceId |-> id, PublicIpAddress |-> Some(PublicIpOf(id)),
     NetworkInterfaces |-> <<[Ipv6Addresses |-> Some(<<[Ipv6Address |-> Ipv6Of(id)]>>)]>>]
Bare(id) ==
    [InstanceId |-> id, PublicIpAddress |-> Undefined,
     NetworkInterfaces |-> <<[Ipv6Addresses |-> Undefined]>>]

\* The instance ids of a describeInstances query that are defined, in order.
Defined(ids) ==
    LET Is(x) == x # Undefined
        some == SelectSeq(ids, Is)
    IN [i \in 1..Len(some) |-> some[i][1]]

\* DescribeInstances answers: one reservation holding the instances asked for.
PipeInstancesAnswers(params) ==
    LET ids == Defined(params.InstanceIds)
    IN {Success([Reservations |-> IF ids = <<>> THEN <<>> ELSE <<[Instances |-> s]>>]) :
            s \in {s \in [1..Len(ids) -> {Healthy(id) : id \in Range(ids)}
                                          \cup {Bare(id) : id \in Range(ids)}] :
                     \A i \in 1..Len(ids) : s[i].InstanceId = ids[i]}}
       \cup {Failure}

(***************************************************************************)
(* Spec: one run of the whole pipeline, as the command line starts it.     *)
(***************************************************************************)
Idle(a) ==
    /\ args = a
    /\ calls = <<>>
    /\ service = Pending
    /\ cluster = Pending
    /\ taskList = Pending
    /\ result = Pending
    /\ containerInstances = <<>>
    /\ output = <<>>
    /\ lastResponse = [by |-> "", err |-> FALSE, data |-> Undefined]
    /\ world = Undefined

PipeArgs ==
    [serviceStackName : {ServiceStackName},
     serviceName : {"", "web"},
     clusterStackName : {"", "cluster-X"},
     containerPorts : {Undefined, Some({80})},
     ipv6 : BOOLEAN,
     startingPort : {Undefined}]

Init == \E a \in PipeArgs : Idle(a)

ServiceResources ==
    /\ InFlight("getServiceName")
    /\ \E r \in ServiceResourceAnswers(CallOf("getServiceName").params) :
            OnServiceResources(r)
DescribeStacks ==
    /\ InFlight("getClusterStackName")
    /\ \E r \in DescribeStacksAnswers : OnDescribeStacks(r)
ClusterResources ==
    /\ InFlight("getClusterName")
    /\ \E r \in ClusterResourceAnswers(CallOf("getClusterName").params) :
            OnClusterResources(r)
ListTasks ==
    /\ InFlight("listTasks")
    /\ \E r \in ListTasksAnswers(PipeTasks) : OnListTasks(r)
DescribeTasks ==
    /\ InFlight("describeTasks")
    /\ \E r \in DescribeTasksAnswers(Len(CallOf("describeTasks").params.tasks),
                                     PipeBindingValues, PipeTasks, {Undefined}) :
            OnDescribeTasks(r)
DescribeContainerInstances ==
    /\ InFlight("describeContainerInstances")
    /\ \E r \in PipeContainerInstancesAnswers(CallOf("describeContainerInstances").params) :
            OnDescribeContainerInstances(r)
DescribeInstances ==
    /\ InFlight("describeInstances")
    /\ \E r \in PipeInstancesAnswers(CallOf("describeInstances").params) :
            OnDescribeInstances(r)

Next ==
    \/ Run
    \/ ServiceResources
    \/ DescribeStacks
    \/ ClusterResources
    \/ ListTasks
    \/ DescribeTasks
    \/ DescribeContainerInstances
    \/ DescribeInstances

Spec == Init /\ [][Next]_vars

(***************************************************************************)
(* Properties of the whole pipeline (Spec).                                *)
(***************************************************************************)
Promises == <<service, cluster, taskList, result>>
AnyStageFailed ==
    \/ \E i \in 1..Len(Promises) : Promises[i].state = "rejected"
    \/ \E i \in 1..Len(calls) : calls[i].status = "error"
AllAnswered == \A i \in 1..Len(calls) : calls[i].status = "ok"
NewCalls == {calls'[i] : i \in (Len(calls) + 1)..Len(calls')}
Downstream == {"listTasks", "describeTasks", "describeContainerInstances", "describeInstances"}

\* C1, as claimed: once any stage has failed, no control-plane query is
\* issued afterwards in that run.
C1_NoQueryAfterFailure == [][AnyStageFailed => Len(calls') = Len(calls)]_vars

\* C1, amended: once any stage has failed, no ListTasks, DescribeTasks,
\* DescribeContainerInstances or DescribeInstances query is issued afterwards;
\* the only query issued after a failure is the Cluster Resolver's
\* DescribeStackResources for "cluster", and only when the Identity Resolver
\* failed while DescribeStacks was in flight.
C1_NoDownstreamQueryAfterFailure ==
    [][AnyStageFailed =>
        \A c \in NewCalls :
            /\ c.by = "getClusterName"
            /\ service.state = "rejected"
            /\ InFlight("getClusterStackName")]_vars

\* C1 witness: the Identity Resolver has failed, DescribeStacks answered after
\* it, and the cluster query it chains is in flight.
C1_Witness ==
    /\ service.state = "rejected"
    /\ lastResponse.by = "getClusterStackName"
    /\ InFlight("getClusterName")

\* C2: a run that ends in a rejection has printed nothing, and a line is
\* printed only in a run whose queries all succeeded and whose addresses
\* all resolved.
C2_NoPartialOutput ==
    /\ result.state = "rejected" => output = <<>>
    /\ output # <<>> =>
        /\ result.state = "fulfilled"
        /\ AllAnswered
        /\ Returned("describeInstances")

\* C2 witness: the run was rejected by the last handler, with host groups to print.
C2_Witness ==
    /\ result.state = "rejected"
    /\ result.value.message = "No IPv6 address"
    /\ containerInstances # <<>>

\* C6: when listTasks answers with zero tasks, there is no host group and no
\* output, the code raises no error of its own, and the run is fulfilled once
\* the three remaining queries have answered.
C6_ZeroTasks ==
    (/\ Issued("listTasks")
     /\ lastResponse.by = "listTasks" => ~lastResponse.err /\ lastResponse.data.taskArns = <<>>
     /\ lastResponse.by # "listTasks" => taskList = Fulfilled(<<>>)
     /\ ~InFlight("listTasks")) =>
        /\ taskList = Fulfilled(<<>>)
        /\ containerInstances = <<>>
        /\ output = <<>>
        /\ Issued("describeTasks")
        /\ CallOf("describeTasks").params.tasks = <<>>
        /\ result.state = "rejected" => result.value.name = "ControlPlaneError"
        /\ Returned("describeInstances") => result.state = "fulfilled"

\* C6 witness: a fulfilled run of a service with no task.
C6_Witness ==
    /\ taskList.state = "fulfilled"
    /\ taskList.value = <<>>
    /\ result.state = "fulfilled"

\* C9: queries are issued in DAG order: both resolvers' first queries before
\* either answers, ListTasks after both identifiers resolved, then
\* DescribeTasks, DescribeContainerInstances, DescribeInstances, each after
\* the previous answered, and output after DescribeInstances answered.
C9_DagOrder ==
    /\ calls # <<>> =>
        /\ Len(calls) >= 2
        /\ calls[1].by \in {"getClusterName", "getClusterStackName"}
        /\ calls[2].by = "getServiceName"
    /\ Issued("listTasks") =>
        /\ Returned("getServiceName") /\ service.state = "fulfilled"
        /\ Returned("getClusterName") /\ cluster.state = "fulfilled"
        /\ CallOf("listTasks").params = [serviceName |-> service.value, cluster |-> cluster.value]
    /\ Issued("describeTasks") => Returned("listTasks")
    /\ Issued("describeContainerInstances") => Returned("describeTasks")
    /\ Issued("describeInstances") => Returned("describeContainerInstances")
    /\ output # <<>> => Returned("describeInstances")
    /\ \A i, j \in 1..Len(calls) : calls[i].by = calls[j].by => i = j

\* C9 witness: a run that went through every stage and printed.
C9_Witness == output # <<>> /\ Len(calls) = 7

\* C10: with an explicit cluster stack name the direct query uses that name
\* and DescribeStacks is never issued; without one DescribeStacks is issued on
\* the service stack, and the "cluster" query is issued only after it answered
\* with a ClusterStackName parameter, whose value is the stack name queried.
C10_ClusterSelection ==
    /\ (args.clusterStackName # "" /\ calls # <<>>) =>
        /\ ~Issued("getClusterStackName")
        /\ calls[1].by = "getClusterName"
        /\ calls[1].op = "describeStackResources"
        /\ calls[1].params = [StackName |-> args.clusterStackName,
                              LogicalResourceId |-> "cluster"]
    /\ (args.clusterStackName = "" /\ calls # <<>>) =>
        /\ calls[1].by = "getClusterStackName"
        /\ calls[1].op = "describeStacks"
        /\ calls[1].params = [StackName |-> args.serviceStackName]
        /\ Issued("getClusterName") =>
            /\ Returned("getClusterStackName")
            /\ CallOf("getClusterName").op = "describeStackResources"
            /\ CallOf("getClusterName").params.LogicalResourceId = "cluster"
        /\ (lastResponse.by = "getClusterStackName" /\ Issued("getClusterName")) =>
            /\ ~lastResponse.err
            /\ Len(lastResponse.data.Stacks) > 0
            /\ \E i \in 1..Len(lastResponse.data.Stacks[1].Parameters) :
                LET p == lastResponse.data.Stacks[1].Parameters[i]
                IN /\ p.ParameterKey = "ClusterStackName"
                   /\ p.ParameterValue = CallOf("getClusterName").params.StackName

\* C10 witness: no explicit name, DescribeStacks answered with other
\* parameters besides the cluster's, and the "cluster" query went out.
C10_Witness ==
    /\ args.clusterStackName = ""
    /\ lastResponse.by = "getClusterStackName"
    /\ Issued("getClusterName")
    /\ Len(lastResponse.data.Stacks[1].Parameters) > 1

\* The error of the stage whose answer was just received, read off the answer:
\* the control plane's error, or the error the stage raises on that data.
StageError ==
    LET by == lastResponse.by
        data == lastResponse.data
        Error(message) == [name |-> "Error", message |-> message]
    IN IF lastResponse.err THEN [name |-> "ControlPlaneError", message |-> by]
       ELSE IF by = "getServiceName" THEN Error("Service not found")
       ELSE IF by = "getClusterStackName"
       THEN IF data.Stacks = <<>> THEN Error("Stack not found")
            ELSE Error("Cluster stack parameter not found")
       ELSE IF by = "getClusterName" THEN Error("Cluster stack not found")
       ELSE Error("No IPv6 address")

\* C11: the caller's promise settles at most once and never changes afterwards;
\* the step in which the first stage of the run fails rejects it with that
\* stage's error, so later failures (the other resolver's included, in either
\* order) leave the outcome alone; it is fulfilled only when no stage failed.
C11_SingleOutcome ==
    [][/\ result.state # "pending" => result' = result
       /\ (~AnyStageFailed /\ AnyStageFailed') => result' = Rejected(StageError')
       /\ result'.state = "rejected" => AnyStageFailed'
       /\ result'.state = "fulfilled" => ~AnyStageFailed']_vars

\* C11 witness: the Identity Resolver failed first, the Cluster Resolver failed
\* after it with another error, and the outcome carries the first error.
C11_Witness ==
    /\ service.state = "rejected"
    /\ cluster.state = "rejected"
    /\ lastResponse.by \in {"getClusterStackName", "getClusterName"}
    /\ cluster.value # service.value
    /\ result = Rejected(service.value)

\* C12: on an answer to its query, the Identity Resolver given a logical name
\* yields the physical id of the one resource of that name in the answer and
\* fails with "Service not found" when the answer holds none; given no name it
\* yields the physical id of the first resource, in answer order, of type
\* AWS::ECS::Service, and fails with "Service not found" when there is none.
C12_IdentityResolver ==
    (lastResponse.by = "getServiceName" /\ ~lastResponse.err) =>
        LET rs == lastResponse.data.StackResources
            matching == {i \in 1..Len(rs) : rs[i].LogicalResourceId = args.serviceName}
            typed == {i \in 1..Len(rs) : rs[i].ResourceType = "AWS::ECS::Service"}
            NotFound ==
                /\ service.state = "rejected"
                /\ service.value = [name |-> "Error", message |-> "Service not found"]
            Found(i) ==
                /\ service.state = "fulfilled"
                /\ service.value = rs[i].PhysicalResourceId
        IN IF args.serviceName # ""
           THEN /\ CallOf("getServiceName").params.LogicalResourceId = args.serviceName
                /\ matching = {} => NotFound
                /\ \A i \in matching :
                        matching = {i} => Found(i)
                /\ service.state = "fulfilled" => Cardinality(matching) = 1
           ELSE /\ "LogicalResourceId" \notin DOMAIN CallOf("getServiceName").params
                /\ typed = {} => NotFound
                /\ \A i \in typed :
                        (\A j \in typed : i <= j) => Found(i)

\* C12 witness: no logical name, and the service is the second resource of
\* the answer, behind a resource of another type.
C12_Witness ==
    /\ lastResponse.by = "getServiceName"
    /\ ~lastResponse.err
    /\ args.serviceName = ""
    /\ Len(lastResponse.data.StackResources) = 2
    /\ lastResponse.data.StackResources[1].ResourceType # "AWS::ECS::Service"
    /\ service = Fulfilled(lastResponse.data.StackResources[2].PhysicalResourceId)

\* C13: the Cluster Resolver fails with "Stack not found" when DescribeStacks
\* answers with no stack and with "Cluster stack parameter not found" when the
\* stack has no parameter of key ClusterStackName; its "cluster" query fails
\* with "Cluster stack not found" on an empty answer and otherwise yields the
\* physical id of the "cluster" resource returned; once the Cluster Resolver
\* has failed, ListTasks has not been and is never issued.
C13_ClusterResolver ==
    LET Failed(message) ==
            /\ cluster.state = "rejected"
            /\ cluster.value = [name |-> "Error", message |-> message]
    IN /\ (lastResponse.by = "getClusterStackName" /\ ~lastResponse.err) =>
            LET stacks == lastResponse.data.Stacks
            IN /\ stacks = <<>> => Failed("Stack not found")
               /\ (/\ stacks # <<>>
                   /\ \A i \in 1..Len(stacks[1].Parameters) :
                        stacks[1].Parameters[i].ParameterKey # "ClusterStackName") =>
                    Failed("Cluster stack parameter not found")
       /\ (lastResponse.by = "getClusterName" /\ ~lastResponse.err) =>
            LET rs == lastResponse.data.StackResources
            IN IF rs = <<>>
               THEN Failed("Cluster stack not found")
               ELSE /\ rs[1].LogicalResourceId = "cluster"
                    /\ cluster.state = "fulfilled"
                    /\ cluster.value = rs[1].PhysicalResourceId
       /\ cluster.state = "rejected" =>
            /\ ~Issued("listTasks")
            /\ taskList.state = "rejected"
            /\ result.state = "rejected"

\* C13 witness: the service resolved, the stack lacks the ClusterStackName
\* parameter, and ListTasks was not issued.
C13_Witness ==
    /\ service.state = "fulfilled"
    /\ cluster.state = "rejected"
    /\ cluster.value.message = "Cluster stack parameter not found"
    /\ lastResponse.by = "getClusterStackName"
    /\ lastResponse.data.Stacks[1].Parameters # <<>>
    /\ ~Issued("listTasks")

(***************************************************************************)
(* SpecAgg: the Binding Aggregator and the Command Emitter on every        *)
(* DescribeTasks answer within the bounds.  The run starts where the       *)
(* pipeline stands once listTasks has answered and describeTasks is in     *)
(* flight; the container instances and the instances are then described    *)
(* in full.                                                                *)
(***************************************************************************)
AggArgs ==
    [serviceStackName : {ServiceStackName},
     serviceName : {""},
     clusterStackName : {"cluster-X"},
     containerPorts : {Undefined, Some({80})},
     ipv6 : {FALSE},
     startingPort : {Undefined, Some(50000)}]

\* The state of a run whose resolvers succeeded and whose listTasks answered
\* with the first n task ARNs.
TasksListed(a, n) ==
    LET svc == Fulfilled(PhysicalIdOf("web"))
        cl == Fulfilled(ClusterIdOf(a.clusterStackName))
        tl == Fulfilled(SubSeq(TaskArns, 1, n))
        log == <<FirstClusterCall(a), ServiceCall(a), ListTasksCall(svc, cl)>>
    IN /\ args = a
       /\ service = svc
       /\ cluster = cl
       /\ taskList = tl
       /\ result = Pending
       /\ calls = [i \in 1..4 |->
                    IF i <= 3 THEN [log[i] EXCEPT !.status = "ok"]
                    ELSE DescribeTasksCall(cl, tl)]
       /\ containerInstances = <<>>
       /\ output = <<>>
       /\ lastResponse = Received("listTasks", Success([taskArns |-> tl.value]))
       /\ world = Undefined

InitAgg == \E a \in AggArgs, n \in 0..MaxTasks : TasksListed(a, n)

AggDescribeTasks ==
    /\ InFlight("describeTasks")
    /\ \E r \in DescribeTasksAnswers(Len(CallOf("describeTasks").params.tasks),
                                     BindingValues, MaxBindings,
                                     {Undefined, Some(<<>>)}) \ {Failure} :
            OnDescribeTasks(r)
AggDescribeContainerInstances ==
    /\ InFlight("describeContainerInstances")
    /\ OnDescribeContainerInstances(
            ContainerInstancesAnswer(CallOf("describeContainerInstances").params.containerInstances))
AggDescribeInstances ==
    /\ InFlight("describeInstances")
    /\ LET ids == Defined(CallOf("describeInstances").params.InstanceIds)
       IN OnDescribeInstances(
            Success([Reservations |-> <<[Instances |-> [i \in 1..Len(ids) |-> Healthy(ids[i])]]>>]))

NextAgg ==
    \/ AggDescribeTasks
    \/ AggDescribeContainerInstances
    \/ AggDescribeInstances

SpecAgg == InitAgg /\ [][NextAgg]_vars

(***************************************************************************)
(* Properties of the aggregation and of the output (SpecAgg).              *)
(***************************************************************************)
\* The bindings of the DescribeTasks answer just received, by position
\* <<task, container, binding>>, in the order the loops visit them.
Described == lastResponse.by = "describeTasks" /\ ~lastResponse.err
BindingsOf(task, j) ==
    IF task.containers[j].networkBindings = Undefined
    THEN <<>>
    ELSE task.containers[j].networkBindings[1]
Positions(tasks) ==
    UNION {UNION {{<<i, j, k>> : k \in 1..Len(BindingsOf(tasks[i], j))} :
                    j \in 1..Len(tasks[i].containers)} :
            i \in 1..Len(tasks)}
BindingAt(tasks, p) == BindingsOf(tasks[p[1]], p[2])[p[3]]
HostAt(tasks, p) == tasks[p[1]].containerInstanceArn
Before(p, q) ==
    \/ p[1] < q[1]
    \/ p[1] = q[1] /\ p[2] < q[2]
    \/ p[1] = q[1] /\ p[2] = q[2] /\ p[3] < q[3]
InFilter(b) == args.containerPorts = Undefined \/ b.containerPort \in args.containerPorts[1]
\* The positions of the bindings on host h that pass the filter.
RetainedOn(tasks, h) ==
    {p \in Positions(tasks) : HostAt(tasks, p) = h /\ InFilter(BindingAt(tasks, p))}
\* The last binding of its containerPort among those.
IsLast(tasks, h, p) ==
    \A q \in RetainedOn(tasks, h) :
        BindingAt(tasks, q).containerPort = BindingAt(tasks, p).containerPort => ~Before(p, q)
Occurrences(ports, hostPort) ==
    Cardinality({e \in 1..Len(ports) : ports[e].value = hostPort})
Groups == 1..Len(containerInstances)
Group(g) == containerInstances[g].value

\* The local ports of the -L clauses of the output, in output order.
RECURSIVE LocalPorts(_)
LocalPorts(lines) ==
    IF lines = <<>>
    THEN <<>>
    ELSE (IF Head(lines).kind = "ssh"
          THEN [e \in 1..Len(Head(lines).forwards) |-> Head(lines).forwards[e].localPort]
          ELSE <<>>) \o LocalPorts(Tail(lines))
SshLines == SelectSeq(output, LAMBDA l : l.kind = "ssh")

\* C3: the local ports of the -L clauses of the whole output are the
\* configured starting port (49152 when none is configured), then the
\* previous clause's port plus 1, across host-group boundaries.
C3_LocalPorts ==
    \A k \in 1..Len(LocalPorts(output)) :
        LocalPorts(output)[k] =
            (IF args.startingPort = Undefined THEN 49152 ELSE args.startingPort[1]) + (k - 1)

\* C3 witness: two ssh lines with a clause each, from a configured starting port.
C3_Witness ==
    /\ args.startingPort # Undefined
    /\ Len(SshLines) >= 2
    /\ \A i \in 1..Len(SshLines) : Len(SshLines[i].forwards) >= 1

\* C4, as claimed: every key of a group's byHostPort map appears exactly once
\* as a value of the group's ports map.
C4_ExactlyOnce ==
    \A g \in Groups :
        \A e \in 1..Len(Group(g).byHostPort) :
            Occurrences(Group(g).ports, Group(g).byHostPort[e].key) = 1

\* C4, amended: every value of a group's ports map is a key of its byHostPort
\* map; a key of byHostPort appears as a value of ports once for every
\* containerPort whose last retained binding on that host carries it, which is
\* exactly once when containerPorts and hostPorts of the host's retained
\* bindings correspond one to one.
C4_PortsWithinLegend ==
    /\ \A g \in Groups :
        \A e \in 1..Len(Group(g).ports) :
            MapHas(Group(g).byHostPort, Group(g).ports[e].value)
    /\ Described =>
        \A g \in Groups :
            LET tasks == lastResponse.data.tasks
                h == containerInstances[g].key
                kept == RetainedOn(tasks, h)
                oneToOne ==
                    \A p, q \in kept :
                        (BindingAt(tasks, p).containerPort = BindingAt(tasks, q).containerPort)
                        <=> (BindingAt(tasks, p).hostPort = BindingAt(tasks, q).hostPort)
            IN \A e \in 1..Len(Group(g).byHostPort) :
                LET hostPort == Group(g).byHostPort[e].key
                IN /\ Occurrences(Group(g).ports, hostPort) =
                        Cardinality({BindingAt(tasks, p).containerPort :
                            p \in {p \in kept : /\ IsLast(tasks, h, p)
                                                /\ BindingAt(tasks, p).hostPort = hostPort}})
                   /\ oneToOne => Occurrences(Group(g).ports, hostPort) = 1

\* C4 witness: a group whose legend has more hostPorts than its ports map has entries.
C4_Witness ==
    /\ Described
    /\ \E g \in Groups : Len(Group(g).byHostPort) > Len(Group(g).ports)

\* C5: with an allow-set, no binding whose containerPort is outside it has an
\* entry in either map and every binding inside it is written to both; with no
\* allow-set every binding is written to both.  Every entry comes from a
\* retained binding of that host.
C5_Filter ==
    Described =>
        LET tasks == lastResponse.data.tasks
        IN /\ \A p \in Positions(tasks) :
                LET b == BindingAt(tasks, p)
                    h == HostAt(tasks, p)
                IN IF InFilter(b)
                   THEN /\ MapHas(containerInstances, h)
                        /\ MapHas(MapGet(containerInstances, h).ports, b.containerPort)
                        /\ MapHas(MapGet(containerInstances, h).byHostPort, b.hostPort)
                   ELSE MapHas(containerInstances, h) =>
                        /\ ~MapHas(MapGet(containerInstances, h).ports, b.containerPort)
                        /\ \A e \in 1..Len(MapGet(containerInstances, h).byHostPort) :
                            MapGet(containerInstances, h).byHostPort[e].value.containerPort
                                # b.containerPort
           /\ \A g \in Groups :
                LET kept == RetainedOn(tasks, containerInstances[g].key)
                IN /\ \A e \in 1..Len(Group(g).ports) :
                        \E p \in kept :
                            /\ BindingAt(tasks, p).containerPort = Group(g).ports[e].key
                            /\ BindingAt(tasks, p).hostPort = Group(g).ports[e].value
                   /\ \A e \in 1..Len(Group(g).byHostPort) :
                        \E p \in kept :
                            /\ BindingAt(tasks, p).hostPort = Group(g).byHostPort[e].key
                            /\ BindingAt(tasks, p).containerPort =
                                    Group(g).byHostPort[e].value.containerPort

\* C5 witness: an allow-set, and on one host a binding inside it and one outside.
C5_Witness ==
    /\ Described
    /\ args.containerPorts # Undefined
    /\ \E p, q \in Positions(lastResponse.data.tasks) :
        /\ HostAt(lastResponse.data.tasks, p) = HostAt(lastResponse.data.tasks, q)
        /\ InFilter(BindingAt(lastResponse.data.tasks, p))
        /\ ~InFilter(BindingAt(lastResponse.data.tasks, q))

\* The first position, in scan order, of a non-empty set of binding positions.
FirstOf(S) == CHOOSE p \in S : \A q \in S : p = q \/ Before(p, q)
\* The number of lines printed for the groups before group g.
RECURSIVE LinesBefore(_)
LinesBefore(g) ==
    IF g = 1 THEN 0 ELSE LinesBefore(g - 1) + 1 + Len(Group(g - 1).byHostPort)

\* C14: the host groups stand in the map in the order in which the scan of
\* tasks, containers and bindings met each host's first retained binding (and
\* the entries of ports and byHostPort in the order in which it first met each
\* containerPort and hostPort of the host); they are printed in that order,
\* each as one ssh line whose -L clauses follow the entries of ports, then one
\* legend line per entry of byHostPort in map order, then the next group.
C14_OutputOrder ==
    /\ Described =>
        LET tasks == lastResponse.data.tasks
            kept(g) == RetainedOn(tasks, containerInstances[g].key)
        IN /\ \A g \in Groups : kept(g) # {}
           /\ \A g, h \in Groups : g < h => Before(FirstOf(kept(g)), FirstOf(kept(h)))
           /\ \A g \in Groups :
                LET with(containerPort) ==
                        {p \in kept(g) : BindingAt(tasks, p).containerPort = containerPort}
                    on(hostPort) ==
                        {p \in kept(g) : BindingAt(tasks, p).hostPort = hostPort}
                IN /\ \A e, f \in 1..Len(Group(g).ports) :
                        e < f => Before(FirstOf(with(Group(g).ports[e].key)),
                                        FirstOf(with(Group(g).ports[f].key)))
                   /\ \A e, f \in 1..Len(Group(g).byHostPort) :
                        e < f => Before(FirstOf(on(Group(g).byHostPort[e].key)),
                                        FirstOf(on(Group(g).byHostPort[f].key)))
    /\ Issued("describeContainerInstances") =>
        MapKeys(containerInstances) = CallOf("describeContainerInstances").params.containerInstances
    /\ result.state = "fulfilled" =>
        /\ Len(output) = LinesBefore(Len(containerInstances) + 1)
        /\ \A g \in Groups :
            LET ssh == output[LinesBefore(g) + 1]
            IN /\ ssh.kind = "ssh"
               /\ Len(ssh.forwards) = Len(Group(g).ports)
               /\ \A e \in 1..Len(Group(g).ports) :
                    ssh.forwards[e].hostPort = Group(g).ports[e].value
               /\ \A e \in 1..Len(Group(g).byHostPort) :
                    output[LinesBefore(g) + 1 + e] =
                        [kind |-> "legend", hostPort |-> Group(g).byHostPort[e].key,
                         containerName |-> Group(g).byHostPort[e].value.containerName,
                         containerPort |-> Group(g).byHostPort[e].value.containerPort]

\* C14 witness: two host groups, the second container instance discovered
\* first, each printed as an ssh line followed by its legend line.
C14_Witness ==
    /\ result.state = "fulfilled"
    /\ MapKeys(containerInstances) = <<"ci-2", "ci-1">>
    /\ Len(output) = 4
    /\ output[1].kind = "ssh" /\ output[2].kind = "legend"
    /\ output[3].kind = "ssh" /\ output[4].kind = "legend"

\* The entries of a map under a key.
EntriesOf(m, k) == {e \in 1..Len(m) : m[e].key = k}

\* After the aggregation: in every host group, ports holds one entry per
\* containerPort of the host's retained bindings, valued with the hostPort of
\* the last of them in scan order, and byHostPort one entry per hostPort.
CollisionsFolded ==
    Described =>
        \A g \in Groups :
            LET tasks == lastResponse.data.tasks
                kept == RetainedOn(tasks, containerInstances[g].key)
                last(containerPort) ==
                    CHOOSE p \in kept :
                        /\ BindingAt(tasks, p).containerPort = containerPort
                        /\ \A q \in kept :
                            BindingAt(tasks, q).containerPort = containerPort =>
                                q = p \/ Before(q, p)
            IN /\ \A p \in kept :
                    LET b == BindingAt(tasks, p)
                    IN /\ Cardinality(EntriesOf(Group(g).ports, b.containerPort)) = 1
                       /\ MapGet(Group(g).ports, b.containerPort) =
                            BindingAt(tasks, last(b.containerPort)).hostPort
                       /\ Cardinality(EntriesOf(Group(g).byHostPort, b.hostPort)) = 1
               /\ Len(Group(g).ports) =
                    Cardinality({BindingAt(tasks, p).containerPort : p \in kept})
               /\ Len(Group(g).byHostPort) =
                    Cardinality({BindingAt(tasks, p).hostPort : p \in kept})

\* In the output of a fulfilled run: per host group one -L clause per entry of
\* ports, to that entry's hostPort, and one legend line per entry of byHostPort.
CollisionsPrinted ==
    result.state = "fulfilled" =>
        /\ Len(SshLines) = Len(containerInstances)
        /\ Len(output) = LinesBefore(Len(containerInstances) + 1)
        /\ \A g \in Groups :
            /\ [e \in 1..Len(SshLines[g].forwards) |-> SshLines[g].forwards[e].hostPort]
                    = MapValues(Group(g).ports)
            /\ \A e \in 1..Len(Group(g).byHostPort) :
                /\ output[LinesBefore(g) + 1 + e].kind = "legend"
                /\ output[LinesBefore(g) + 1 + e].hostPort = Group(g).byHostPort[e].key

\* C15: when retained bindings of one host share a containerPort under
\* different hostPorts, the group's ports map holds a single entry for that
\* containerPort, valued with the hostPort of the last such binding, and
\* byHostPort one entry per hostPort; the maps stay as aggregated, and the ssh
\* line has one -L clause for that containerPort, the legend a line per hostPort.
C15_LastWriteWins ==
    [][/\ CollisionsFolded'
       /\ CollisionsPrinted'
       /\ Issued("describeContainerInstances") =>
            /\ Len(containerInstances') = Len(containerInstances)
            /\ \A g \in Groups :
                /\ containerInstances'[g].value.ports = Group(g).ports
                /\ containerInstances'[g].value.byHostPort = Group(g).byHostPort]_vars

\* C15 witness: a printed group with one -L clause and two legend lines, both
\* for the same containerPort, the clause forwarding to the later hostPort.
C15_Witness ==
    /\ result.state = "fulfilled"
    /\ Len(containerInstances) = 1
    /\ MapKeys(Group(1).ports) = <<80>>
    /\ MapKeys(Group(1).byHostPort) = <<32768, 32769>>
    /\ Len(output) = 3
    /\ Len(output[1].forwards) = 1
    /\ output[1].forwards[1].hostPort = 32769
    /\ output[2].containerPort = 80 /\ output[3].containerPort = 80

\* The name at index j of a task's container-override list.
OverrideName(tasks, p) == tasks[p[1]].overrides.containerOverrides[p[2]].name

\* C16: after the aggregation every entry of a group's byHostPort map is the
\* record of one retained binding of that host, the last in scan order
\* carrying that hostPort: its containerPort with the name at the binding's
\* container index in the override list of the binding's own task; so the
\* name stored for a retained binding whose hostPort no later binding of the
\* host repeats is that of its own task and index.  The map stays as
\* aggregated and the legend prints the stored names.
C16_PositionalNames ==
    [][/\ Described' =>
            \A g \in Groups' :
                LET tasks == lastResponse'.data.tasks
                    byHostPort == containerInstances'[g].value.byHostPort
                    kept == {p \in Positions(tasks) :
                                /\ HostAt(tasks, p) = containerInstances'[g].key
                                /\ \/ args'.containerPorts = Undefined
                                   \/ BindingAt(tasks, p).containerPort
                                        \in args'.containerPorts[1]}
                    Unrepeated(p) ==
                        \A q \in kept :
                            BindingAt(tasks, q).hostPort = BindingAt(tasks, p).hostPort =>
                                q = p \/ Before(q, p)
                IN /\ \A p \in kept :
                        Unrepeated(p) =>
                            MapGet(byHostPort, BindingAt(tasks, p).hostPort) =
                                [containerName |-> OverrideName(tasks, p),
                                 containerPort |-> BindingAt(tasks, p).containerPort]
                   /\ \A e \in 1..Len(byHostPort) :
                        \E p \in kept :
                            /\ Unrepeated(p)
                            /\ BindingAt(tasks, p).hostPort = byHostPort[e].key
       /\ Issued("describeContainerInstances") =>
            /\ Len(containerInstances') = Len(containerInstances)
            /\ \A g \in Groups : containerInstances'[g].value.byHostPort = Group(g).byHostPort
       /\ result'.state = "fulfilled" =>
            \A g \in Groups :
                \A e \in 1..Len(Group(g).byHostPort) :
                    LET line == output'[LinesBefore(g) + 1 + e]
                    IN /\ line.kind = "legend"
                       /\ line.hostPort = Group(g).byHostPort[e].key
                       /\ line.containerName = Group(g).byHostPort[e].value.containerName]_vars

\* C16 witness: a legend with the name of a task's second container and the
\* name of the second container of a task of the other revision.
C16_Witness ==
    /\ result.state = "fulfilled"
    /\ \E i, j \in 1..Len(output) :
        /\ output[i].kind = "legend" /\ output[i].containerName = "db"
        /\ output[j].kind = "legend" /\ output[j].containerName = "cache"

\* No host group of a map is without a port or without a legend entry.
NoEmptyGroup(ci) ==
    \A g \in 1..Len(ci) : Len(ci[g].value.ports) >= 1 /\ Len(ci[g].value.byHostPort) >= 1

\* C20: every host group in the map has at least one entry in ports and one
\* in byHostPort, in every state of the run and after each binding the
\* aggregation has dealt with; a host has a group exactly when one of its
\* tasks has a retained binding; every ssh line printed has at least one -L
\* clause and is followed by a legend line.
C20_NoEmptyGroups ==
    /\ NoEmptyGroup(containerInstances)
    /\ Described =>
        LET tasks == lastResponse.data.tasks
        IN /\ \A p \in Positions(tasks) :
                NoEmptyGroup(Aggregate(
                    [i \in 1..Len(tasks) |->
                        [tasks[i] EXCEPT !.containers =
                            [j \in 1..Len(@) |->
                                [name |-> @[j].name,
                                 networkBindings |->
                                    Some([k \in 1..Cardinality(
                                            {q \in Positions(tasks) :
                                                /\ q[1] = i /\ q[2] = j
                                                /\ (q = p \/ Before(q, p))}) |->
                                         BindingsOf(tasks[i], j)[k]])]]]],
                    args.containerPorts).value)
           /\ \A i \in 1..Len(tasks) :
                MapHas(containerInstances, tasks[i].containerInstanceArn)
                    <=> RetainedOn(tasks, tasks[i].containerInstanceArn) # {}
           /\ \A g \in Groups : RetainedOn(tasks, containerInstances[g].key) # {}
    /\ \A i \in 1..Len(output) :
        output[i].kind = "ssh" =>
            /\ Len(output[i].forwards) >= 1
            /\ i < Len(output)
            /\ output[i + 1].kind = "legend"

\* C20 witness: with an allow-set, a host whose only binding is outside it has
\* no group, while another host has one.
C20_Witness ==
    /\ Described
    /\ args.containerPorts # Undefined
    /\ containerInstances # <<>>
    /\ \E p \in Positions(lastResponse.data.tasks) :
        /\ ~InFilter(BindingAt(lastResponse.data.tasks, p))
        /\ ~MapHas(containerInstances, HostAt(lastResponse.data.tasks, p))

(***************************************************************************)
(* SpecHost: the Host Resolver and the Command Emitter on every answer of  *)
(* DescribeContainerInstances and DescribeInstances within the bounds.     *)
(* The run starts where the pipeline stands once listTasks has answered;   *)
(* describeTasks then answers with one binding per task.                   *)
(***************************************************************************)
HostArgs ==
    [serviceStackName : {ServiceStackName},
     serviceName : {""},
     clusterStackName : {"cluster-X"},
     containerPorts : {Undefined},
     ipv6 : BOOLEAN,
     startingPort : {Undefined}]

OneBindingEach(n) ==
    [i \in 1..n |->
        [task |-> i, container |-> 1,
         binding |-> [containerPort |-> 80, hostPort |-> 32768]]]

InitHost == \E a \in HostArgs : TasksListed(a, MaxTasks)

\* describeTasks answers with one binding per task, the tasks on any hosts.
HostDescribeTasks ==
    /\ InFlight("describeTasks")
    /\ \E hosts \in [1..MaxTasks -> ContainerInstanceArns] :
            OnDescribeTasks(TasksAnswer(MaxTasks, hosts, Undefined, OneBindingEach(MaxTasks)))

\* Any of the container instances asked for, in any order, each on any instance.
HostContainerInstancesAnswers(params) ==
    LET arns == Range(params.containerInstances)
    IN {Success([containerInstances |-> s]) :
            s \in {s \in SeqsUpTo([containerInstanceArn : arns,
                                   ec2InstanceId : {InstanceIdOf(arn) : arn \in ContainerInstanceArns}],
                                  Cardinality(arns)) :
                    \A i, j \in 1..Len(s) :
                        i # j => s[i].containerInstanceArn # s[j].containerInstanceArn}}
       \cup {Failure}

\* An instance as DescribeInstances may describe it: with or without a public
\* IPv4 address; with no network interface, or a first interface whose IPv6
\* address list is absent, empty, or holds an address.
InstanceDescriptions(id) ==
    [InstanceId : {id},
     PublicIpAddress : {Undefined, Some(PublicIpOf(id))},
     NetworkInterfaces :
        {<<>>,
         <<[Ipv6Addresses |-> Undefined]>>,
         <<[Ipv6Addresses |-> Some(<<>>)]>>,
         <<[Ipv6Addresses |-> Some(<<[Ipv6Address |-> Ipv6Of(id)]>>)]>>}]

\* Any of the instances asked for, in any order, in one reservation or in one each.
HostInstancesAnswers(params) ==
    LET ids == Range(Defined(params.InstanceIds))
        lists == {s \in SeqsUpTo(UNION {InstanceDescriptions(id) : id \in ids},
                                 Cardinality(ids)) :
                    \A i, j \in 1..Len(s) : i # j => s[i].InstanceId # s[j].InstanceId}
    IN {Success([Reservations |-> IF s = <<>> THEN <<>> ELSE <<[Instances |-> s]>>]) :
            s \in lists}
       \cup {Success([Reservations |-> [i \in 1..Len(s) |-> [Instances |-> <<s[i]>>]]]) :
            s \in lists}
       \cup {Failure}

HostDescribeContainerInstances ==
    /\ InFlight("describeContainerInstances")
    /\ \E r \in HostContainerInstancesAnswers(CallOf("describeContainerInstances").params) :
            OnDescribeContainerInstances(r)
HostDescribeInstances ==
    /\ InFlight("describeInstances")
    /\ \E r \in HostInstancesAnswers(CallOf("describeInstances").params) :
            OnDescribeInstances(r)

NextHost ==
    \/ HostDescribeTasks
    \/ HostDescribeContainerInstances
    \/ HostDescribeInstances

SpecHost == InitHost /\ [][NextHost]_vars

(***************************************************************************)
(* Properties of the address resolution (SpecHost).                        *)
(***************************************************************************)
\* The instances of the DescribeInstances answer just received.
InstancesDescribed == lastResponse.by = "describeInstances" /\ ~lastResponse.err
DescribedInstances ==
    UNION {Range(lastResponse.data.Reservations[i].Instances) :
            i \in 1..Len(lastResponse.data.Reservations)}
LacksIpv6(instance) ==
    \/ Len(instance.NetworkInterfaces) = 0
    \/ instance.NetworkInterfaces[1].Ipv6Addresses = Undefined
    \/ instance.NetworkInterfaces[1].Ipv6Addresses[1] = <<>>

\* C7, as claimed: in IPv6 mode, an instance with no first network interface,
\* or whose first interface has an absent or empty IPv6 address list, makes
\* the run fail with "No IPv6 address", and nothing is printed.
C7_NoIpv6Address ==
    (InstancesDescribed /\ args.ipv6 /\ \E i \in DescribedInstances : LacksIpv6(i)) =>
        /\ result = Rejected([name |-> "Error", message |-> "No IPv6 address"])
        /\ output = <<>>

\* C8, as claimed: in IPv4 mode the run is fulfilled and every group is
\* printed, with an empty address when the public IPv4 address is absent.
C8_EmptyAddress ==
    (InstancesDescribed /\ ~args.ipv6) =>
        /\ result.state = "fulfilled"
        /\ Len(SshLines) = Len(containerInstances)
        /\ \A g \in Groups :
            Group(g).ipAddress = Undefined => SshLines[g].address = ""

\* The public IPv4 address the answer gives for an instance id, if any.
PublicIpIn(instanceId) ==
    IF instanceId # Undefined /\ \E i \in DescribedInstances : i.InstanceId = instanceId[1]
    THEN (CHOOSE i \in DescribedInstances : i.InstanceId = instanceId[1]).PublicIpAddress
    ELSE Undefined

\* C8, amended: in IPv4 mode the run never fails for a missing public IPv4
\* address: it is fulfilled and every group's ssh line is printed, the address
\* after "ec2-user@" being the public address of the group's instance, or the
\* text "undefined" when that address is absent.
C8_UndefinedAddress ==
    (InstancesDescribed /\ ~args.ipv6) =>
        /\ result.state = "fulfilled"
        /\ Len(SshLines) = Len(containerInstances)
        /\ \A g \in Groups :
            /\ Group(g).ipAddress = PublicIpIn(Group(g).instanceId)
            /\ SshLines[g].user = "ec2-user"
            /\ SshLines[g].address =
                IF Group(g).ipAddress = Undefined THEN "undefined" ELSE Group(g).ipAddress[1]

\* C8 witness: IPv4 mode, two groups, the instance of one described without
\* a public address, and both ssh lines printed.
C8_Witness ==
    /\ InstancesDescribed
    /\ ~args.ipv6
    /\ Len(SshLines) = 2
    /\ \E g \in Groups :
        /\ Group(g).instanceId # Undefined
        /\ \E i \in DescribedInstances :
            i.InstanceId = Group(g).instanceId[1] /\ i.PublicIpAddress = Undefined
    /\ \E g \in Groups : Group(g).ipAddress # Undefined

\* The address the DescribeInstances answer just received reports for an
\* instance id: its public IPv4 address, or in IPv6 mode the first IPv6
\* address of its first network interface; none for an instance not described.
ReportedAddress(instanceId) ==
    IF instanceId = Undefined \/ \A i \in DescribedInstances : i.InstanceId # instanceId[1]
    THEN Undefined
    ELSE LET instance == CHOOSE i \in DescribedInstances : i.InstanceId = instanceId[1]
         IN IF args.ipv6
            THEN Some(instance.NetworkInterfaces[1].Ipv6Addresses[1][1].Ipv6Address)
            ELSE instance.PublicIpAddress

\* The host join, state by state: the two queries carry the keys of the host
\* groups and the groups' instance ids; each group's instance id is the one
\* DescribeContainerInstances reported for its key; each printed address is
\* the one DescribeInstances reported for the group's instance id.
HostJoin ==
    /\ Issued("describeContainerInstances") =>
        /\ CallOf("describeContainerInstances").params.containerInstances
                = MapKeys(containerInstances)
        /\ CallOf("describeContainerInstances").params.cluster = cluster.value
    /\ Issued("describeInstances") =>
        CallOf("describeInstances").params.InstanceIds
            = [g \in Groups |-> Group(g).instanceId]
    /\ (lastResponse.by = "describeContainerInstances" /\ ~lastResponse.err) =>
        LET reported == lastResponse.data.containerInstances
        IN \A g \in Groups :
            LET mine == {i \in 1..Len(reported) :
                            reported[i].containerInstanceArn = containerInstances[g].key}
            IN /\ mine = {} => Group(g).instanceId = Undefined
               /\ \A i \in mine : Group(g).instanceId = Some(reported[i].ec2InstanceId)
    /\ (InstancesDescribed /\ result.state = "fulfilled") =>
        /\ Len(SshLines) = Len(containerInstances)
        /\ \A g \in Groups :
            /\ Group(g).ipAddress = ReportedAddress(Group(g).instanceId)
            /\ SshLines[g].address = StringOf(ReportedAddress(Group(g).instanceId))

\* C17: DescribeContainerInstances is queried with exactly the keys of the
\* host groups and DescribeInstances with exactly the groups' instance ids;
\* a group's instance id, once DescribeInstances is issued, never changes; the
\* address after "ec2-user@" in a group's ssh line is the address
\* DescribeInstances reported for the instance DescribeContainerInstances
\* reported for that group's key.
C17_HostJoin ==
    [][/\ HostJoin'
       /\ Issued("describeInstances") =>
            /\ MapKeys(containerInstances') = MapKeys(containerInstances)
            /\ \A g \in Groups :
                    containerInstances'[g].value.instanceId = Group(g).instanceId]_vars

\* C17 witness: two groups on two instances, DescribeInstances describing the
\* second group's instance first, and each ssh line with its own group's address.
C17_Witness ==
    /\ InstancesDescribed
    /\ result.state = "fulfilled"
    /\ Len(containerInstances) = 2
    /\ Group(1).instanceId # Undefined
    /\ Group(2).instanceId # Undefined
    /\ Group(1).instanceId # Group(2).instanceId
    /\ lastResponse.data.Reservations # <<>>
    /\ lastResponse.data.Reservations[1].Instances[1].InstanceId = Group(2).instanceId[1]
    /\ SshLines[1].address # "undefined"
    /\ SshLines[2].address # "undefined"
    /\ SshLines[1].address # SshLines[2].address

(***************************************************************************)
(* SpecOrder: the two resolvers racing.  The answers of the three resolver *)
(* queries are fixed in world before the run starts and every later query  *)
(* has one answer, so that the only choice left is the order in which the  *)
(* responses of the Identity Resolver and the Cluster Resolver arrive.     *)
(***************************************************************************)
OrderArgs ==
    [serviceStackName : {ServiceStackName},
     serviceName : {"", "web"},
     clusterStackName : {"", "cluster-X"},
     containerPorts : {Undefined},
     ipv6 : {FALSE},
     startingPort : {Undefined}]

ClusterStackNames == {"cluster-A", "cluster-X"}

\* What may go wrong after the resolvers: nothing, the failure of one of the
\* four later queries, or instances described without any address.
Mishaps ==
    {"none", "listTasks", "describeTasks", "describeContainerInstances",
     "describeInstances", "address"}

\* The answers ready for a run with arguments a: one for the service query,
\* one for DescribeStacks (asked only without a cluster stack name), one per
\* cluster stack for the "cluster" query, and the mishap of the later queries.
Worlds(a, mishaps) ==
    [mishap : mishaps,
     service : ServiceResourceAnswers(ServiceQuery(a.serviceStackName, a.serviceName)),
     stacks : IF a.clusterStackName = "" THEN DescribeStacksAnswers
              ELSE {Success([Stacks |-> <<>>])},
     cluster : {f \in [ClusterStackNames ->
                        UNION {ClusterResourceAnswers(ClusterQuery(n)) : n \in ClusterStackNames}] :
                    \A n \in ClusterStackNames : f[n] \in ClusterResourceAnswers(ClusterQuery(n))}]

\* Before module.exports is called, the answers ready.
Ready(a, w) ==
    /\ args = a
    /\ calls = <<>>
    /\ service = Pending
    /\ cluster = Pending
    /\ taskList = Pending
    /\ result = Pending
    /\ containerInstances = <<>>
    /\ output = <<>>
    /\ lastResponse = [by |-> "", err |-> FALSE, data |-> Undefined]
    /\ world = w

InitOrder == \E a \in OrderArgs : \E w \in Worlds(a, {"none"}) : Ready(a, w)

\* The one answer of listTasks, and of describeTasks for n tasks: the tasks
\* alternate between the two container instances, one binding each.
OrderTaskArns == Success([taskArns |-> SubSeq(TaskArns, 1, PipeTasks)])
OrderHosts(n) == [i \in 1..n |-> IF i % 2 = 1 THEN "ci-1" ELSE "ci-2"]
OrderTasks(n) == TasksAnswer(n, OrderHosts(n), Undefined, OneBindingEach(n))

OrderServiceResources ==
    /\ InFlight("getServiceName")
    /\ OnServiceResources(world.service)
OrderDescribeStacks ==
    /\ InFlight("getClusterStackName")
    /\ OnDescribeStacks(world.stacks)
OrderClusterResources ==
    /\ InFlight("getClusterName")
    /\ OnClusterResources(world.cluster[CallOf("getClusterName").params.StackName])
OrderListTasks ==
    /\ InFlight("listTasks")
    /\ OnListTasks(IF world.mishap = "listTasks" THEN Failure ELSE OrderTaskArns)
OrderDescribeTasks ==
    /\ InFlight("describeTasks")
    /\ OnDescribeTasks(IF world.mishap = "describeTasks" THEN Failure
                       ELSE OrderTasks(Len(CallOf("describeTasks").params.tasks)))
OrderDescribeContainerInstances ==
    /\ InFlight("describeContainerInstances")
    /\ OnDescribeContainerInstances(
            IF world.mishap = "describeContainerInstances" THEN Failure
            ELSE ContainerInstancesAnswer(
                    CallOf("describeContainerInstances").params.containerInstances))
OrderDescribeInstances ==
    /\ InFlight("describeInstances")
    /\ LET ids == Defined(CallOf("describeInstances").params.InstanceIds)
           Instance(id) == IF world.mishap = "address" THEN Bare(id) ELSE Healthy(id)
       IN OnDescribeInstances(
            IF world.mishap = "describeInstances" THEN Failure
            ELSE Success([Reservations |->
                    <<[Instances |-> [i \in 1..Len(ids) |-> Instance(ids[i])]]>>]))

NextOrder ==
    \/ Run
    \/ OrderServiceResources
    \/ OrderDescribeStacks
    \/ OrderClusterResources
    \/ OrderListTasks
    \/ OrderDescribeTasks
    \/ OrderDescribeContainerInstances
    \/ OrderDescribeInstances

SpecOrder == InitOrder /\ [][NextOrder]_vars

(***************************************************************************)
(* Properties of the race between the resolvers (SpecOrder).               *)
(***************************************************************************)
\* What each stage yields when the answers of world are taken one after the
\* other, the Identity Resolver first: the reference the racing run is
\* compared with.
RefService ==
    Outcome("getServiceName", world.service,
            getServiceName(args.serviceName, world.service.data))
RefClusterOf(stackName) ==
    Outcome("getClusterName", world.cluster[stackName],
            getClusterName(world.cluster[stackName].data))
RefCluster ==
    IF args.clusterStackName # ""
    THEN RefClusterOf(args.clusterStackName)
    ELSE LET stack == Outcome("getClusterStackName", world.stacks,
                              getClusterStackName(world.stacks.data))
         IN IF stack.ok THEN RefClusterOf(stack.value) ELSE stack
RefGroups == Aggregate(OrderTasks(PipeTasks).data.tasks, args.containerPorts).value
RefHosts ==
    SetInstanceIds(Return(RefGroups),
                   ContainerInstancesAnswer(MapKeys(RefGroups)).data.containerInstances, 1).value
RefInstances ==
    LET ids == Defined(InstanceIds(RefHosts))
    IN [Reservations |-> <<[Instances |-> [i \in 1..Len(ids) |-> Healthy(ids[i])]]>>]
RefOutput ==
    Emit(RefHosts, InstanceIpsOf(RefInstances, args.ipv6).value, args.startingPort).output

\* A promise settled as a completion says.
SettledAs(p, c) ==
    /\ p.state = IF c.ok THEN "fulfilled" ELSE "rejected"
    /\ p.value = c.value

\* C18: with the arguments and the answers fixed, in whichever order the
\* responses of the two resolvers arrive: each resolver settles as its own
\* answers say; ListTasks is issued exactly when both have resolved, and
\* ListTasks, DescribeTasks, DescribeContainerInstances and DescribeInstances
\* carry the arguments of the reference run; the cluster passed to the first
\* three is the one value the Cluster Resolver produced; the output of a
\* fulfilled run is the output of the reference run.
C18_OrderIndependence ==
    /\ service.state # "pending" => SettledAs(service, RefService)
    /\ cluster.state # "pending" => SettledAs(cluster, RefCluster)
    /\ Issued("listTasks") <=> (service.state = "fulfilled" /\ cluster.state = "fulfilled")
    /\ Issued("listTasks") =>
        CallOf("listTasks").params =
            [serviceName |-> RefService.value, cluster |-> RefCluster.value]
    /\ Issued("describeTasks") =>
        CallOf("describeTasks").params =
            [cluster |-> RefCluster.value, tasks |-> OrderTaskArns.data.taskArns]
    /\ Issued("describeContainerInstances") =>
        CallOf("describeContainerInstances").params =
            [containerInstances |-> MapKeys(RefGroups), cluster |-> RefCluster.value]
    /\ Issued("describeInstances") =>
        CallOf("describeInstances").params = [InstanceIds |-> InstanceIds(RefHosts)]
    /\ \A i \in 1..Len(calls) :
        "cluster" \in DOMAIN calls[i].params =>
            /\ cluster.state = "fulfilled"
            /\ calls[i].params.cluster = cluster.value
    /\ output # <<>> => result.state = "fulfilled"
    /\ result.state = "fulfilled" => output = RefOutput

\* C18 witness: without a cluster stack name, the Identity Resolver's answer
\* arrived after both answers of the Cluster Resolver and issued ListTasks.
C18_Witness ==
    /\ args.clusterStackName = ""
    /\ Issued("listTasks")
    /\ Len(calls) = 4
    /\ lastResponse.by = "getServiceName"

(***************************************************************************)
(* FairSpec: runs in which module.exports is called and every query that   *)
(* is issued receives its response, a success or an error.  The answers    *)
(* are fixed in world as in SpecOrder, with the mishaps of the later       *)
(* queries, in IPv6 mode.                                                  *)
(***************************************************************************)
FairArgs ==
    [serviceStackName : {ServiceStackName},
     serviceName : {"", "web"},
     clusterStackName : {"", "cluster-X"},
     containerPorts : {Undefined},
     ipv6 : {TRUE},
     startingPort : {Undefined}]

\* The worlds of the fair runs: answers of at most one resource or parameter,
\* the "cluster" query faring alike on every cluster stack.
FairWorlds(a) ==
    {w \in Worlds(a, Mishaps) :
        /\ ~w.service.err => Len(w.service.data.StackResources) <= 1
        /\ (~w.stacks.err /\ w.stacks.data.Stacks # <<>>) =>
                Len(w.stacks.data.Stacks[1].Parameters) <= 1
        /\ \A m, n \in ClusterStackNames :
                /\ w.cluster[m].err = w.cluster[n].err
                /\ ~w.cluster[m].err =>
                        Len(w.cluster[m].data.StackResources)
                            = Len(w.cluster[n].data.StackResources)}

InitFair == \E a \in FairArgs : \E w \in FairWorlds(a) : Ready(a, w)

FairSpec ==
    /\ InitFair
    /\ [][NextOrder]_vars
    /\ WF_vars(Run)
    /\ WF_vars(OrderServiceResources)
    /\ WF_vars(OrderDescribeStacks)
    /\ WF_vars(OrderClusterResources)
    /\ WF_vars(OrderListTasks)
    /\ WF_vars(OrderDescribeTasks)
    /\ WF_vars(OrderDescribeContainerInstances)
    /\ WF_vars(OrderDescribeInstances)

\* The number of queries of an operation issued so far.
QueriesOf(op) == Cardinality({i \in 1..Len(calls) : calls[i].op = op})
Settled == result.state # "pending"
Quiet == calls # <<>> /\ \A i \in 1..Len(calls) : calls[i].status # "pending"

\* C19: every run settles, for good and with no query left in flight; a
\* fulfilled run has had every query answered and has printed every line of
\* every host group; a settled run stays as it
\* settled; no operation is queried more than once, DescribeStackResources
\* more than twice (once by each resolver), and a run with no query in flight
\* has settled and issues nothing more.
C19_Termination ==
    /\ <>[](Settled /\ Quiet)
    /\ [](result.state = "fulfilled" =>
            /\ \A i \in 1..Len(calls) : calls[i].status = "ok"
            /\ Len(calls) \in {6, 7}
            /\ Len(SshLines) = Len(containerInstances)
            /\ Len(output) = LinesBefore(Len(containerInstances) + 1))
    /\ [](/\ QueriesOf("describeStackResources") <= 2
          /\ \A op \in {"describeStacks", "listTasks", "describeTasks",
                         "describeContainerInstances", "describeInstances"} :
                QueriesOf(op) <= 1
          /\ \A i, j \in 1..Len(calls) : calls[i].by = calls[j].by => i = j)
    /\ [][/\ Settled => result' = result
          /\ Quiet => calls' = calls]_vars

\* C19 witness: a run that settled by printing two host groups after its
\* seven queries were answered.
C19_Witness ==
    /\ result.state = "fulfilled"
    /\ Len(calls) = 7
    /\ Quiet
    /\ Len(SshLines) = 2

====
